---- MODULE Spec2Model ----
(***************************************************************************)
(* Model of scripts/debug_helper.py (skill error-detective):               *)
(*   StackTraceParser  - parse_text and the four line scanners             *)
(*   LogAnalyzer       - analyze_file and _extract_error_message           *)
(* The input text is a sequence of lines (text.split('\n')).  Lines are    *)
(* concrete strings; each regular expression of PATTERNS is the predicate  *)
(* "re.match(pattern, line) succeeds" tabulated over those strings, and    *)
(* its capture groups are tabulated next to it.                            *)
(***************************************************************************)
EXTENDS Integers, Sequences, FiniteSets, TLC

(* ------------------------------------------------------------------ *)
(* Bounds                                                              *)
(* ------------------------------------------------------------------ *)
MaxLen == 3
MaxLogLen == 3
MaxFairLen == 2
MaxTime == 1
MaxNotes == 2

(* ------------------------------------------------------------------ *)
(* The lines the inputs are made of                                    *)
(* ------------------------------------------------------------------ *)
TB == "Traceback (most recent call last):"
PYFILE == "  File \"a.py\", line 3, in f"
PYFILE0 == "  File \"a.py\", line 0, in f"
SNIPPET == "    x = compute(1)"
ERR == "SomeError: message"
WARNLINE == "UserWarning: message"
JSAT == "    at f (a.js:1:2)"
JSATSIMPLE == "    at a.js:1:2"
JEXC == "java.io.IOException: boom"
JAT == "\tat com.foo.Bar.baz(Bar.java:10)"
CAUSED == "Caused by: java.lang.IllegalStateException: inner"
CAUSED2 == "Caused by: java.io.IOException: root"
PANIC == "panic: runtime error"
GOROUTINE == "goroutine 1 [running]:"
GOFUNC == "main.main()"
GOLOC == "\t/tmp/x.go:5 +0x1d"
BLANK == ""

Alphabet ==
  {TB, PYFILE, SNIPPET, ERR, WARNLINE, JSAT, JSATSIMPLE, JEXC, JAT, CAUSED,
   PANIC, GOROUTINE, GOFUNC, GOLOC, BLANK}

(* int(s) for the digit strings the tabulated lines carry *)
int(s) ==
  CASE s = "0" -> 0 [] s = "1" -> 1 [] s = "2" -> 2 [] s = "3" -> 3
    [] s = "5" -> 5 [] s = "10" -> 10

(* str.strip() of a line, used for the snippet of a python frame *)
Strip(l) ==
  CASE l = PYFILE -> "File \"a.py\", line 3, in f"
    [] l = PYFILE0 -> "File \"a.py\", line 0, in f"
    [] l = SNIPPET -> "x = compute(1)"
    [] l = JSAT -> "at f (a.js:1:2)"
    [] l = JSATSIMPLE -> "at a.js:1:2"
    [] l = JAT -> "at com.foo.Bar.baz(Bar.java:10)"
    [] l = GOLOC -> "/tmp/x.go:5 +0x1d"
    [] OTHER -> l

(* ------------------------------------------------------------------ *)
(* PATTERNS: re.match(pattern, line) and its groups                    *)
(* ------------------------------------------------------------------ *)
python_traceback_start(l) == l = TB

python_file_line(l) == l \in {PYFILE, PYFILE0}

python_file_line_groups(l) ==
  IF l = PYFILE0 THEN <<"a.py", "0", "f">> ELSE <<"a.py", "3", "f">>

\* faulty variant: the alternation lost `Error`
python_error_line_no_error(l) == l = WARNLINE

python_error_line(l) == l \in {ERR, WARNLINE}

python_error_line_groups(l) ==
  IF l = ERR THEN <<"SomeError", "message">> ELSE <<"UserWarning", "message">>

python_code_line(l) ==
  l \in {PYFILE, PYFILE0, SNIPPET, JSAT, JSATSIMPLE, JAT, GOLOC}

javascript_error_line(l) == l = ERR

javascript_error_line_groups(l) == <<"SomeError", "message">>

javascript_at_line(l) == l = JSAT

javascript_at_line_groups(l) == <<"f", "a.js", "1", "2">>

javascript_at_line_simple(l) == l \in {JSAT, JSATSIMPLE}

javascript_at_line_simple_groups(l) ==
  IF l = JSAT THEN <<"f (a.js", "1", "2">> ELSE <<"a.js", "1", "2">>

java_exception_line(l) == l \in {ERR, JEXC}

java_exception_line_groups(l) ==
  IF l = ERR THEN <<"SomeError", "message">> ELSE <<"java.io.IOException", "boom">>

java_at_line(l) == l = JAT

java_at_line_groups(l) == <<"com.foo.Bar.baz", "Bar.java", "10">>

\* faulty variant: only one chain line is recognised
java_caused_by_once(l) == l = CAUSED

java_caused_by(l) == l \in {CAUSED, CAUSED2}

java_caused_by_groups(l) ==
  IF l = CAUSED2 THEN <<"java.io.IOException", "root">>
  ELSE <<"java.lang.IllegalStateException", "inner">>

go_panic_line(l) == l = PANIC

go_panic_line_groups(l) == <<"runtime error">>

go_goroutine(l) == l = GOROUTINE

go_file_line(l) == l \in {TB, SNIPPET, JSAT, JAT, GOFUNC}

go_file_line_groups(l) ==
  CASE l = TB -> <<"Traceback ">>
    [] l = SNIPPET -> <<"    x = compute">>
    [] l = JSAT -> <<"    at f ">>
    [] l = JAT -> <<"\tat com.foo.Bar.baz">>
    [] l = GOFUNC -> <<"main.main">>

go_location(l) == l \in {JSAT, JSATSIMPLE, JAT, GOLOC}

go_location_groups(l) ==
  CASE l = JSAT -> <<"at f (a.js", "1">>
    [] l = JSATSIMPLE -> <<"at a.js", "1">>
    [] l = JAT -> <<"at com.foo.Bar.baz(Bar.java", "10">>
    [] l = GOLOC -> <<"/tmp/x.go", "5">>

(* the keys of PATTERNS in dict order: the order parse_text iterates in *)
PATTERNS == <<"python", "javascript", "java", "go">>

(* ------------------------------------------------------------------ *)
(* State                                                               *)
(* ------------------------------------------------------------------ *)
VARIABLES
  cmd,          \* the command main() dispatches: "parse-trace",
                \* "analyze-log" or "session"
  lines,        \* text.split('\n') of the text handed to parse_text
  lang,         \* position of parse_text's loop in PATTERNS (5: returned)
  pc,           \* scanner position: "outer" or "inner" loop head
  i,            \* the scanner's cursor (0-based, as in the code)
  trace,        \* the record the scanner has open
  scan_traces,  \* the running scanner's local list `traces`
  traces,       \* parse_text's list `traces`
  log_lines,    \* f.readlines() of the log file handed to analyze_file
  pattern,      \* analyze_file's `pattern` argument
  ln,           \* analyze_file's loop counter (enumerate from 1)
  analysis,     \* analyze_file's dict `analysis`
  opened_at,    \* history: the cursor at the start line of the open record
  spans,        \* history: <<start line, cursor after the record>> of
                \* every record in scan_traces
  current,      \* the file current_session.json of the session directory
  archive,      \* the files session_<id>.json of the session directory, by id
  now,          \* the clock datetime.now() reads
  added,        \* history: the contents add_note was given since the
                \* session in the slot was started
  other,        \* the local variables of a second, suspended call
  stage,        \* where main() is: "open" (the file is not read yet),
                \* "run" (the call is running), "print" (the call has
                \* returned), "exit"
  fmt,          \* args.format
  returned,     \* main's `traces` or `analysis`: what the call returned
  stderr,       \* the messages printed to sys.stderr
  stdout,       \* what main printed
  raised        \* the exception that ended main, if any

parse_vars == <<lines, lang, pc, i, trace, scan_traces, traces>>

log_vars == <<log_lines, pattern, ln, analysis>>

hist_vars == <<opened_at, spans>>

store_vars == <<current, archive, now, added>>

main_vars == <<stage, fmt, returned, stderr, stdout, raised>>

vars == <<cmd, lines, lang, pc, i, trace, scan_traces, traces,
          log_lines, pattern, ln, analysis, opened_at, spans,
          current, archive, now, added, other,
          stage, fmt, returned, stderr, stdout, raised>>

None == "None"

NoTrace == [language |-> None]

\* no second call
NoCall == [cmd |-> None]

\* lines[k] with the code's 0-based index
Line(k) == lines[k + 1]

n_lines == Len(lines)

Scanning(l) ==
  cmd = "parse-trace" /\ stage = "run" /\ lang <= 4 /\ PATTERNS[lang] = l

\* history of the outer loop: a start line opens a record at the cursor
NoteStart ==
  /\ opened_at' = IF pc' = "inner" THEN i ELSE opened_at
  /\ UNCHANGED spans

\* history of the exit of the frame loop: an appended record spans the
\* lines from its start line to the cursor
NoteSpan ==
  /\ spans' = IF Len(scan_traces') > Len(scan_traces)
              THEN Append(spans, <<opened_at, i'>>) ELSE spans
  /\ UNCHANGED opened_at

\* faulty variant: the line that ended the frame loop is read again
AfterLoopReread(k) == k

\* the `i += 1` that ends an iteration of the outer loop, after the frame
\* loop
AfterLoop(k) == k + 1

(* ------------------------------------------------------------------ *)
(* _parse_python                                                       *)
(* ------------------------------------------------------------------ *)
PyFrame(k) ==
  [file |-> python_file_line_groups(Line(k))[1],
   line |-> int(python_file_line_groups(Line(k))[2]),
   function |-> python_file_line_groups(Line(k))[3],
   code |-> IF k + 1 < n_lines THEN Strip(Line(k + 1)) ELSE ""]

\* faulty variant: the record is appended whatever the line is
PyEmitAlways(t, ts, l) == Append(ts, t)

\* `if error_match: ...; traces.append(trace)` on the line l that ended
\* the frame loop
PyEmit(t, ts, l) ==
  IF python_error_line(l)
  THEN Append(ts, [t EXCEPT !.error_type = python_error_line_groups(l)[1],
                            !.error_message = python_error_line_groups(l)[2]])
  ELSE ts

\* one iteration of the outer loop that does not enter the frame loop,
\* or the entry into the frame loop at a traceback start line
PyOuter ==
  /\ Scanning("python") /\ pc = "outer" /\ i < n_lines
  /\ IF python_traceback_start(Line(i))
       THEN /\ trace' = [language |-> "python", stack |-> <<>>,
                         error_type |-> None, error_message |-> None]
            /\ i' = i + 1
            /\ pc' = "inner"
       ELSE /\ i' = i + 1
            /\ UNCHANGED <<trace, pc>>
  /\ NoteStart
  /\ UNCHANGED <<log_vars, store_vars, main_vars, other>>
  /\ UNCHANGED <<cmd, lines, lang, scan_traces, traces>>

\* frame loop: a declaration line and the line after it become one frame
PyInnerFrame ==
  /\ Scanning("python") /\ pc = "inner" /\ i < n_lines
  /\ python_file_line(Line(i))
  /\ trace' = [trace EXCEPT !.stack = Append(@, PyFrame(i))]
  /\ i' = i + 2
  /\ UNCHANGED hist_vars
  /\ UNCHANGED <<log_vars, store_vars, main_vars, other>>
  /\ UNCHANGED <<cmd, lines, lang, pc, scan_traces, traces>>

\* frame loop: any other line ends the loop (break), the record is kept
\* only when that line is the error line; then the outer `i += 1`
PyInnerBreak ==
  /\ Scanning("python") /\ pc = "inner" /\ i < n_lines
  /\ ~python_file_line(Line(i))
  /\ scan_traces' = PyEmit(trace, scan_traces, Line(i))
  /\ trace' = NoTrace
  /\ i' = AfterLoop(i)
  /\ pc' = "outer"
  /\ UNCHANGED <<log_vars, store_vars, main_vars, other>>
  /\ UNCHANGED <<cmd, lines, lang, traces>>
  /\ NoteSpan

\* frame loop left because the input ended; then the outer `i += 1`
PyInnerEnd ==
  /\ Scanning("python") /\ pc = "inner" /\ i >= n_lines
  /\ trace' = NoTrace
  /\ i' = AfterLoop(i)
  /\ pc' = "outer"
  /\ UNCHANGED <<log_vars, store_vars, main_vars, other>>
  /\ UNCHANGED <<cmd, lines, lang, scan_traces, traces>>
  /\ NoteSpan

(* ------------------------------------------------------------------ *)
(* _parse_javascript                                                   *)
(* ------------------------------------------------------------------ *)
JsFrame(k) ==
  [function |-> javascript_at_line_groups(Line(k))[1],
   file |-> javascript_at_line_groups(Line(k))[2],
   line |-> int(javascript_at_line_groups(Line(k))[3]),
   column |-> int(javascript_at_line_groups(Line(k))[4])]

JsSimpleFrame(k) ==
  [file |-> javascript_at_line_simple_groups(Line(k))[1],
   line |-> int(javascript_at_line_simple_groups(Line(k))[2]),
   column |-> int(javascript_at_line_simple_groups(Line(k))[3])]

\* faulty variant: the record is appended without the frame test
JsEmitAlways(t, ts) == Append(ts, t)

\* `if trace['stack']: traces.append(trace)`
JsEmit(t, ts) == IF t.stack # <<>> THEN Append(ts, t) ELSE ts

JsOuter ==
  /\ Scanning("javascript") /\ pc = "outer" /\ i < n_lines
  /\ IF javascript_error_line(Line(i))
       THEN /\ trace' = [language |-> "javascript",
                         error_type |-> javascript_error_line_groups(Line(i))[1],
                         error_message |-> javascript_error_line_groups(Line(i))[2],
                         stack |-> <<>>]
            /\ i' = i + 1
            /\ pc' = "inner"
       ELSE /\ i' = i + 1
            /\ UNCHANGED <<trace, pc>>
  /\ NoteStart
  /\ UNCHANGED <<log_vars, store_vars, main_vars, other>>
  /\ UNCHANGED <<cmd, lines, lang, scan_traces, traces>>

JsInnerFrame ==
  /\ Scanning("javascript") /\ pc = "inner" /\ i < n_lines
  /\ \/ /\ javascript_at_line(Line(i))
        /\ trace' = [trace EXCEPT !.stack = Append(@, JsFrame(i))]
     \/ /\ ~javascript_at_line(Line(i))
        /\ javascript_at_line_simple(Line(i))
        /\ trace' = [trace EXCEPT !.stack = Append(@, JsSimpleFrame(i))]
  /\ i' = i + 1
  /\ UNCHANGED hist_vars
  /\ UNCHANGED <<log_vars, store_vars, main_vars, other>>
  /\ UNCHANGED <<cmd, lines, lang, pc, scan_traces, traces>>

\* break on a line that is no frame, emit-or-drop, then the outer `i += 1`
JsInnerBreak ==
  /\ Scanning("javascript") /\ pc = "inner" /\ i < n_lines
  /\ ~javascript_at_line(Line(i))
  /\ ~javascript_at_line_simple(Line(i))
  /\ scan_traces' = JsEmit(trace, scan_traces)
  /\ trace' = NoTrace
  /\ i' = AfterLoop(i)
  /\ pc' = "outer"
  /\ UNCHANGED <<log_vars, store_vars, main_vars, other>>
  /\ UNCHANGED <<cmd, lines, lang, traces>>
  /\ NoteSpan

JsInnerEnd ==
  /\ Scanning("javascript") /\ pc = "inner" /\ i >= n_lines
  /\ scan_traces' = JsEmit(trace, scan_traces)
  /\ trace' = NoTrace
  /\ i' = AfterLoop(i)
  /\ pc' = "outer"
  /\ UNCHANGED <<log_vars, store_vars, main_vars, other>>
  /\ UNCHANGED <<cmd, lines, lang, traces>>
  /\ NoteSpan

(* ------------------------------------------------------------------ *)
(* _parse_java                                                         *)
(* ------------------------------------------------------------------ *)
JavaFrame(k) ==
  [method |-> java_at_line_groups(Line(k))[1],
   file |-> java_at_line_groups(Line(k))[2],
   line |-> int(java_at_line_groups(Line(k))[3])]

JavaCause(k) ==
  [type |-> java_caused_by_groups(Line(k))[1],
   message |-> java_caused_by_groups(Line(k))[2]]

\* faulty variant: the entry goes to the frame list
JavaAddCauseToStack(t, k) == [t EXCEPT !.stack = Append(@, JavaCause(k))]

\* `trace['caused_by'].append({...})`
JavaAddCause(t, k) == [t EXCEPT !.caused_by = Append(@, JavaCause(k))]

\* faulty variant: the minimum-frame test of the other scanners
JavaEmitIfFrames(t, ts) == IF t.stack # <<>> THEN Append(ts, t) ELSE ts

\* `traces.append(trace)`, unconditional
JavaEmit(t, ts) == Append(ts, t)

JavaOuter ==
  /\ Scanning("java") /\ pc = "outer" /\ i < n_lines
  /\ IF java_exception_line(Line(i))
       THEN /\ trace' = [language |-> "java",
                         error_type |-> java_exception_line_groups(Line(i))[1],
                         error_message |-> java_exception_line_groups(Line(i))[2],
                         stack |-> <<>>, caused_by |-> <<>>]
            /\ i' = i + 1
            /\ pc' = "inner"
       ELSE /\ i' = i + 1
            /\ UNCHANGED <<trace, pc>>
  /\ NoteStart
  /\ UNCHANGED <<log_vars, store_vars, main_vars, other>>
  /\ UNCHANGED <<cmd, lines, lang, scan_traces, traces>>

JavaInnerFrame ==
  /\ Scanning("java") /\ pc = "inner" /\ i < n_lines
  /\ java_at_line(Line(i))
  /\ trace' = [trace EXCEPT !.stack = Append(@, JavaFrame(i))]
  /\ i' = i + 1
  /\ UNCHANGED hist_vars
  /\ UNCHANGED <<log_vars, store_vars, main_vars, other>>
  /\ UNCHANGED <<cmd, lines, lang, pc, scan_traces, traces>>

JavaInnerCause ==
  /\ Scanning("java") /\ pc = "inner" /\ i < n_lines
  /\ ~java_at_line(Line(i))
  /\ java_caused_by(Line(i))
  /\ trace' = JavaAddCause(trace, i)
  /\ i' = i + 1
  /\ UNCHANGED hist_vars
  /\ UNCHANGED <<log_vars, store_vars, main_vars, other>>
  /\ UNCHANGED <<cmd, lines, lang, pc, scan_traces, traces>>

JavaInnerBreak ==
  /\ Scanning("java") /\ pc = "inner" /\ i < n_lines
  /\ ~java_at_line(Line(i))
  /\ ~java_caused_by(Line(i))
  /\ scan_traces' = JavaEmit(trace, scan_traces)
  /\ trace' = NoTrace
  /\ i' = AfterLoop(i)
  /\ pc' = "outer"
  /\ UNCHANGED <<log_vars, store_vars, main_vars, other>>
  /\ UNCHANGED <<cmd, lines, lang, traces>>
  /\ NoteSpan

JavaInnerEnd ==
  /\ Scanning("java") /\ pc = "inner" /\ i >= n_lines
  /\ scan_traces' = JavaEmit(trace, scan_traces)
  /\ trace' = NoTrace
  /\ i' = AfterLoop(i)
  /\ pc' = "outer"
  /\ UNCHANGED <<log_vars, store_vars, main_vars, other>>
  /\ UNCHANGED <<cmd, lines, lang, traces>>
  /\ NoteSpan

(* ------------------------------------------------------------------ *)
(* _parse_go                                                           *)
(* ------------------------------------------------------------------ *)
GoFrame(k) ==
  [function |-> go_file_line_groups(Line(k))[1],
   file |-> go_location_groups(Line(k + 1))[1],
   line |-> int(go_location_groups(Line(k + 1))[2])]

\* faulty variant: the record is appended without the frame test
GoEmitAlways(t, ts) == Append(ts, t)

\* `if trace['stack']: traces.append(trace)`
GoEmit(t, ts) == IF t.stack # <<>> THEN Append(ts, t) ELSE ts

\* faulty variant: the test of the frame list is inverted
GoBreaksInverted(t) == t.stack = <<>>

\* `if trace['stack']: break` on a line that is no call-site line
GoBreaks(t) == t.stack # <<>>

\* `func_match and i + 1 < len(lines)`
GoFuncMatch(k) == go_file_line(Line(k)) /\ k + 1 < n_lines

GoOuter ==
  /\ Scanning("go") /\ pc = "outer" /\ i < n_lines
  /\ IF go_panic_line(Line(i))
       THEN /\ trace' = [language |-> "go",
                         error_message |-> go_panic_line_groups(Line(i))[1],
                         stack |-> <<>>]
            /\ i' = i + 1
            /\ pc' = "inner"
       ELSE /\ i' = i + 1
            /\ UNCHANGED <<trace, pc>>
  /\ NoteStart
  /\ UNCHANGED <<log_vars, store_vars, main_vars, other>>
  /\ UNCHANGED <<cmd, lines, lang, scan_traces, traces>>

\* faulty variant: a line stepped over leaves the cursor where it is
StepOverStay(k) == k

\* `i += 1` of the branches of the frame loop that step over a line
StepOver(k) == k + 1

\* a goroutine header is stepped over (`continue`)
GoInnerHeader ==
  /\ Scanning("go") /\ pc = "inner" /\ i < n_lines
  /\ go_goroutine(Line(i))
  /\ i' = StepOver(i)
  /\ UNCHANGED hist_vars
  /\ UNCHANGED <<log_vars, store_vars, main_vars, other>>
  /\ UNCHANGED <<cmd, lines, lang, pc, trace, scan_traces, traces>>

\* a call-site line followed by a location line is one frame
GoInnerFrame ==
  /\ Scanning("go") /\ pc = "inner" /\ i < n_lines
  /\ ~go_goroutine(Line(i))
  /\ GoFuncMatch(i)
  /\ go_location(Line(i + 1))
  /\ trace' = [trace EXCEPT !.stack = Append(@, GoFrame(i))]
  /\ i' = i + 2
  /\ UNCHANGED hist_vars
  /\ UNCHANGED <<log_vars, store_vars, main_vars, other>>
  /\ UNCHANGED <<cmd, lines, lang, pc, scan_traces, traces>>

\* a call-site line whose next line is no location line is stepped over
GoInnerNoLocation ==
  /\ Scanning("go") /\ pc = "inner" /\ i < n_lines
  /\ ~go_goroutine(Line(i))
  /\ GoFuncMatch(i)
  /\ ~go_location(Line(i + 1))
  /\ i' = StepOver(i)
  /\ UNCHANGED hist_vars
  /\ UNCHANGED <<log_vars, store_vars, main_vars, other>>
  /\ UNCHANGED <<cmd, lines, lang, pc, trace, scan_traces, traces>>

\* any other line is stepped over while no frame has been captured
GoInnerSkip ==
  /\ Scanning("go") /\ pc = "inner" /\ i < n_lines
  /\ ~go_goroutine(Line(i))
  /\ ~GoFuncMatch(i)
  /\ ~GoBreaks(trace)
  /\ i' = StepOver(i)
  /\ UNCHANGED hist_vars
  /\ UNCHANGED <<log_vars, store_vars, main_vars, other>>
  /\ UNCHANGED <<cmd, lines, lang, pc, trace, scan_traces, traces>>

\* any other line ends the loop once a frame has been captured (break);
\* then emit and the outer `i += 1`
GoInnerBreak ==
  /\ Scanning("go") /\ pc = "inner" /\ i < n_lines
  /\ ~go_goroutine(Line(i))
  /\ ~GoFuncMatch(i)
  /\ GoBreaks(trace)
  /\ scan_traces' = GoEmit(trace, scan_traces)
  /\ trace' = NoTrace
  /\ i' = AfterLoop(i)
  /\ pc' = "outer"
  /\ UNCHANGED <<log_vars, store_vars, main_vars, other>>
  /\ UNCHANGED <<cmd, lines, lang, traces>>
  /\ NoteSpan

GoInnerEnd ==
  /\ Scanning("go") /\ pc = "inner" /\ i >= n_lines
  /\ scan_traces' = GoEmit(trace, scan_traces)
  /\ trace' = NoTrace
  /\ i' = AfterLoop(i)
  /\ pc' = "outer"
  /\ UNCHANGED <<log_vars, store_vars, main_vars, other>>
  /\ UNCHANGED <<cmd, lines, lang, traces>>
  /\ NoteSpan

(* ------------------------------------------------------------------ *)
(* parse_text                                                          *)
(* ------------------------------------------------------------------ *)
\* faulty variant: the scanner's records are put in front
ExtendFront(ts, found) == found \o ts

\* faulty variant: `traces.append(...)` in place of `traces.extend(...)`
ExtendAppend(ts, found) == Append(ts, found)

\* `traces.extend(self._parse_<lang>(text))`
Extend(ts, found) == ts \o found

\* faulty variant: the first grammar that finds a record ends the parse
NextLangFirstWins(l, found) == IF found # <<>> THEN 5 ELSE l + 1

\* the scanner parse_text runs after the one at position l of PATTERNS
NextLang(l, found) == l + 1

\* a scanner's outer loop ends and it returns its list; parse_text extends
\* its own list with it and goes on to the next key of PATTERNS
ScannerReturn ==
  /\ cmd = "parse-trace" /\ stage = "run"
  /\ lang <= 4 /\ pc = "outer" /\ i >= n_lines
  /\ traces' = Extend(traces, scan_traces)
  /\ lang' = NextLang(lang, scan_traces)
  /\ scan_traces' = <<>>
  /\ i' = 0
  /\ opened_at' = 0 /\ spans' = <<>>
  /\ UNCHANGED <<log_vars, store_vars, main_vars, other>>
  /\ UNCHANGED <<cmd, lines, pc, trace>>

\* parse_text has returned
parse_done == cmd = "parse-trace" /\ lang > 4

(* ------------------------------------------------------------------ *)
(* LogAnalyzer                                                         *)
(* A log line is a sequence of tokens: each token is a run of          *)
(* characters that the analyzer's regular expressions match or leave   *)
(* as a whole.                                                         *)
(* ------------------------------------------------------------------ *)
SP == " "
NL == "\n"
TS1 == "2024-01-01T00:00:00"
TS2 == "2024-01-02T00:00:00"
TSF == "2024-01-01 00:00:00,123"
LONGMSG == "xxxxxxxxxxxxxxxxxxxxxxxxxxxxxxxxxxxxxxxxxxxxxxxxxxxxxxxxxxxxxxxxxxxxxxxxxxxxxxxxxxxxxxxxxxxxxxxxxxxxxxxxxxxxxxxxxxxxxxxx"
LONG100 == "xxxxxxxxxxxxxxxxxxxxxxxxxxxxxxxxxxxxxxxxxxxxxxxxxxxxxxxxxxxxxxxxxxxxxxxxxxxxxxxxxxxxxxxxxxxxxxxxxxxx"

\* the lines of the log files, without their line terminator
LogBodies ==
  { <<TS1, SP, "ERROR", SP, "[svc]", SP, "disk full">>,
    <<TS2, SP, "ERROR", SP, "[svc]", SP, "disk full">>,
    <<TSF, SP, "WARNING", SP, "low memory">>,
    <<"INFO", SP, "started">>,
    <<"ERROR", SP, "WARNING", SP, "both">>,
    <<"hello">>,
    <<"3 errors found">>,
    <<"ERROR", SP, LONGMSG>> }

\* f.readlines(): every line keeps its "\n", except a last line that the
\* file does not terminate
ReadLines(bodies, final_newline) ==
  [k \in 1..Len(bodies) |->
     IF k < Len(bodies) \/ final_newline THEN Append(bodies[k], NL)
     ELSE bodies[k]]

TokLen(t) ==
  CASE t \in {SP, NL} -> 1
    [] t = LONGMSG -> 120
    [] t = LONG100 -> 100
    [] t \in {"ERROR", "[svc]", "hello"} -> 5
    [] t = "both" -> 4
    [] t = "INFO" -> 4
    [] t = "WARNING" -> 7
    [] t = "started" -> 7
    [] t = "disk full" -> 9
    [] t = "low memory" -> 10
    [] t = "3 errors found" -> 14
    [] t \in {TS1, TS2} -> 19
    [] t = TSF -> 23

\* error_pattern.search(line)
error_pattern(line) ==
  \E k \in 1..Len(line) : line[k] \in {"ERROR", "3 errors found"}

\* warning_pattern.search(line)
warning_pattern(line) ==
  \E k \in 1..Len(line) : line[k] = "WARNING"

IsTimestamp(t) == t \in {TS1, TS2, TSF}

\* timestamp_pattern.search(line): does it match
timestamp_pattern(line) == \E k \in 1..Len(line) : IsTimestamp(line[k])

\* timestamp_pattern.search(line).group(): the first match, without the
\* fraction the pattern does not cover
timestamp_group(line) ==
  LET k == CHOOSE k \in 1..Len(line) :
             IsTimestamp(line[k]) /\ \A j \in 1..(k - 1) : ~IsTimestamp(line[j])
  IN IF line[k] = TSF THEN "2024-01-01 00:00:00" ELSE line[k]

\* `pattern in line` for a non-empty pattern
Contains(line, pat) ==
  \E k \in 1..Len(line) :
     \/ pat = "disk" /\ line[k] = "disk full"
     \/ pat = "ERROR" /\ line[k] = "ERROR"

RECURSIVE LStrip(_, _)
LStrip(line, chars) ==
  IF line # <<>> /\ Head(line) \in chars THEN LStrip(Tail(line), chars) ELSE line

RECURSIVE RStrip(_, _)
RStrip(line, chars) ==
  IF line # <<>> /\ line[Len(line)] \in chars
  THEN RStrip(SubSeq(line, 1, Len(line) - 1), chars) ELSE line

\* line.strip(): white space off both ends
StripLine(line) == RStrip(LStrip(line, {SP, NL}), {SP, NL})

MaxKeyLen == 100

\* line[:100]
RECURSIVE Truncate(_, _)
Truncate(line, room) ==
  IF line = <<>> \/ room = 0 THEN <<>>
  ELSE IF TokLen(Head(line)) <= room
       THEN <<Head(line)>> \o Truncate(Tail(line), room - TokLen(Head(line)))
       ELSE CASE Head(line) = LONGMSG /\ room = MaxKeyLen -> <<LONG100>>

\* _extract_error_message
extract_error_message(line) ==
  LET no_ts == SelectSeq(line, LAMBDA t : ~IsTimestamp(t))
      no_level == SelectSeq(no_ts, LAMBDA t : t \notin {"ERROR", "WARNING", "INFO"})
      no_logger == SelectSeq(no_level, LAMBDA t : t # "[svc]")
      stripped == RStrip(LStrip(no_logger, {SP, ":", "|", "-"}), {SP, ":", "|", "-"})
  IN Truncate(stripped, MaxKeyLen)

\* faulty variant: the count is set, not raised
IncSet(m, k) == [x \in DOMAIN m \cup {k} |-> IF x = k THEN 1 ELSE m[x]]

\* defaultdict(int): m[k] += 1
Inc(m, k) ==
  IF k \in DOMAIN m THEN [m EXCEPT ![k] = @ + 1]
  ELSE [x \in DOMAIN m \cup {k} |-> IF x = k THEN 1 ELSE m[x]]

\* defaultdict(list): m[k].append(v)
Push(m, k, v) ==
  IF k \in DOMAIN m THEN [m EXCEPT ![k] = Append(@, v)]
  ELSE [x \in DOMAIN m \cup {k} |-> IF x = k THEN <<v>> ELSE m[x]]

EmptyMap == [x \in {} |-> 0]

\* the dict analyze_file builds before its loop
NewAnalysis(ls) ==
  [total_lines |-> Len(ls), errors |-> EmptyMap, warnings |-> EmptyMap,
   patterns |-> EmptyMap, timestamps |-> <<>>]

NoAnalysis == [total_lines |-> 0, errors |-> EmptyMap, warnings |-> EmptyMap,
               patterns |-> EmptyMap, timestamps |-> <<>>]

\* "Check for errors"
CountErrors(a, line) ==
  IF error_pattern(line)
  THEN [a EXCEPT !.errors = Inc(@, extract_error_message(line))]
  ELSE a

\* faulty variant: a line counted as an error is not tested for a warning
CountWarningsElif(a, line) ==
  IF ~error_pattern(line) /\ warning_pattern(line)
  THEN [a EXCEPT !.warnings = Inc(@, extract_error_message(line))]
  ELSE a

\* "Check for warnings"
CountWarnings(a, line) ==
  IF warning_pattern(line)
  THEN [a EXCEPT !.warnings = Inc(@, extract_error_message(line))]
  ELSE a

\* one iteration of analyze_file's loop, on line number ln
AnalyzeLine ==
  /\ cmd = "analyze-log" /\ stage = "run" /\ ln <= Len(log_lines)
  /\ LET line == log_lines[ln]
         a1 == CountErrors(analysis, line)
         a2 == CountWarnings(a1, line)
         a3 == IF timestamp_pattern(line)
               THEN [a2 EXCEPT !.timestamps = Append(@, timestamp_group(line))]
               ELSE a2
         a4 == IF pattern # None /\ Contains(line, pattern)
               THEN [a3 EXCEPT !.patterns =
                       Push(@, pattern, [line_number |-> ln, content |-> StripLine(line)])]
               ELSE a3
     IN analysis' = a4
  /\ ln' = ln + 1
  /\ UNCHANGED <<cmd, log_lines, pattern>>
  /\ UNCHANGED <<parse_vars, hist_vars, store_vars, main_vars, other>>

\* analyze_file has returned `analysis`
analyze_done == cmd = "analyze-log" /\ ln > Len(log_lines)

(* ------------------------------------------------------------------ *)
(* DebugSession                                                        *)
(* Every action is one run of the `session` command; the session       *)
(* directory outlives the run.  The clock counts ticks of half a       *)
(* second.                                                             *)
(* ------------------------------------------------------------------ *)
TicksPerSecond == 2

\* datetime.now().strftime('%Y%m%d_%H%M%S'): the time in whole seconds
strftime(t) == t \div TicksPerSecond

\* datetime.now().isoformat(): the time with its fraction of a second
isoformat(t) == <<t \div TicksPerSecond, t % TicksPerSecond>>

Descriptions == {"bug A", "bug B"}

NoteTexts == {"n1", "n2"}

Solutions == {"fix A"}

\* current_session.json does not exist
Absent == [file |-> "absent"]

\* current_session.json holds text that is no JSON
Garbage == [file |-> "garbage"]

\* no session_<id>.json exists
NoArchive == [x \in {} |-> None]

\* the None that _load_current_session returns
NoSession == [id |-> None]

\* _load_current_session
load_current_session(file) ==
  IF file = Absent THEN NoSession
  ELSE IF file = Garbage THEN NoSession
  ELSE file

\* start: the new session takes the place of whatever the slot held
SessionStart ==
  /\ cmd = "session"
  /\ \E description \in Descriptions :
        current' = [id |-> strftime(now),
                    description |-> description,
                    start_time |-> isoformat(now),
                    notes |-> <<>>,
                    status |-> "active"]
  /\ added' = <<>>
  /\ UNCHANGED <<archive, now, other>>
  /\ UNCHANGED <<cmd, parse_vars, log_vars, hist_vars, main_vars>>

\* faulty variant: the new note is put in front of the others
AppendNoteFront(session, note) ==
  [session EXCEPT !.notes = <<[timestamp |-> isoformat(now), content |-> note]>> \o @]

\* session['notes'].append({'timestamp': ..., 'content': note})
AppendNote(session, note) ==
  [session EXCEPT !.notes = Append(@, [timestamp |-> isoformat(now), content |-> note])]

\* add_note
SessionNote ==
  /\ cmd = "session"
  /\ \E note \in NoteTexts :
        LET session == load_current_session(current)
        IN IF session = NoSession THEN UNCHANGED <<current, added>>
           ELSE /\ Len(session.notes) < MaxNotes
                /\ current' = AppendNote(session, note)
                /\ added' = Append(added, note)
  /\ UNCHANGED <<archive, now, other>>
  /\ UNCHANGED <<cmd, parse_vars, log_vars, hist_vars, main_vars>>

\* the session as close() writes it to the archive
Resolved(session, solution) ==
  [id |-> session.id,
   description |-> session.description,
   start_time |-> session.start_time,
   notes |-> session.notes,
   status |-> "resolved",
   end_time |-> isoformat(now),
   solution |-> solution]

\* open(archive_file, 'w') and json.dump: the file of that id is created or
\* rewritten
WriteArchive(files, session) ==
  [x \in DOMAIN files \cup {session.id} |->
     IF x = session.id THEN session ELSE files[x]]

\* faulty variant: the slot is left as it is
unlink_keeps(file) == file

\* self.current_session_file.unlink()
unlink(file) == Absent

\* close
SessionClose ==
  /\ cmd = "session"
  /\ \E solution \in Solutions :
        LET session == load_current_session(current)
        IN IF session = NoSession THEN UNCHANGED <<current, archive, added>>
           ELSE /\ archive' = WriteArchive(archive, Resolved(session, solution))
                /\ current' = unlink(current)
                /\ added' = <<>>
  /\ UNCHANGED <<now, other>>
  /\ UNCHANGED <<cmd, parse_vars, log_vars, hist_vars, main_vars>>

\* time passes between two runs of the command
Tick ==
  /\ cmd = "session"
  /\ now < MaxTime
  /\ now' = now + 1
  /\ UNCHANGED <<current, archive, added, other>>
  /\ UNCHANGED <<cmd, parse_vars, log_vars, hist_vars, main_vars>>

(* ------------------------------------------------------------------ *)
(* Inputs                                                              *)
(* ------------------------------------------------------------------ *)
\* every text of at most MaxLen lines
FreeInputs == UNION {[1..n -> Alphabet] : n \in 1..MaxLen}

\* one valid example of each format
PyExample(trailer) == <<TB, PYFILE, SNIPPET, trailer>>

JsExample(frame) == <<ERR, frame>>

JavaExample(start) == <<start, JAT>>

GoExample(header) == <<PANIC>> \o header \o <<GOFUNC, GOLOC>>

Examples ==
  { <<PyExample(t), JsExample(f), JavaExample(s), GoExample(h)>> :
      t \in {ERR, WARNLINE}, f \in {JSAT, JSATSIMPLE}, s \in {JEXC, ERR},
      h \in {<<>>, <<GOROUTINE>>} }

Perms == {p \in [1..4 -> 1..4] : \A a, b \in 1..4 : a # b => p[a] # p[b]}

\* the four examples in any order, directly adjacent or separated by a
\* blank line, with or without a final line terminator
FourFormatInputs ==
  { e[p[1]] \o sep \o e[p[2]] \o sep \o e[p[3]] \o sep \o e[p[4]] \o last :
      e \in Examples, p \in Perms, sep \in {<<>>, <<BLANK>>},
      last \in {<<>>, <<BLANK>>} }

\* a traceback start line, one two-line frame and the trailer line
OneFrameTracebacks ==
  { <<TB, PYFILE, s, ERR>> \o last :
      s \in {l \in Alphabet : python_code_line(l)}, last \in {<<>>, <<BLANK>>} }

\* a panic line and one frame, with one other line between them
PanicWithGap == { <<PANIC, g, GOFUNC, GOLOC>> : g \in Alphabet }

\* a traceback whose frame declares line 0
ZeroLineTracebacks == { <<TB, PYFILE0, SNIPPET, t>> : t \in {ERR, WARNLINE} }

\* an exception line followed by frame lines and chain lines in any mix
ChainInputs ==
  { <<JEXC>> \o r : r \in UNION {[1..n -> {JAT, CAUSED, CAUSED2}] : n \in 1..MaxLen} }

\* two tracebacks, directly adjacent or separated by a blank line
TwoTracebacks ==
  { PyExample(t) \o sep \o PyExample(u) :
      t \in {ERR, WARNLINE}, u \in {ERR, WARNLINE}, sep \in {<<>>, <<BLANK>>} }

TraceInputs ==
  FreeInputs \cup FourFormatInputs \cup OneFrameTracebacks \cup PanicWithGap
    \cup ZeroLineTracebacks \cup ChainInputs \cup TwoTracebacks

\* five lines, two of them errors and one a warning
FiveLineLogs ==
  { ReadLines(<<e, <<"INFO", SP, "started">>, <<TS2, SP, "ERROR", SP, "[svc]", SP, "disk full">>,
                <<TSF, SP, "WARNING", SP, "low memory">>, <<"hello">>>>, nl) :
      e \in {b \in LogBodies : error_pattern(b) /\ ~warning_pattern(b)},
      nl \in BOOLEAN }

LogInputs ==
  { ReadLines(b, nl) :
      b \in UNION {[1..n -> LogBodies] : n \in 0..MaxLogLen}, nl \in BOOLEAN }
    \cup FiveLineLogs

LogPatterns == {None, "disk", "ERROR"}

(* ------------------------------------------------------------------ *)
(* main                                                                *)
(* A run of the parse-trace or the analyze-log command from the        *)
(* opening of the file to the end of main().                           *)
(* ------------------------------------------------------------------ *)
\* "Error: File not found: <filepath>"
NotFound == "Error: File not found"

\* sum(m.values())
RECURSIVE SumValues(_)
SumValues(m) ==
  IF DOMAIN m = {} THEN 0
  ELSE LET k == CHOOSE k \in DOMAIN m : TRUE
       IN m[k] + SumValues([x \in DOMAIN m \ {k} |-> m[x]])

\* format_trace: the language heading (in upper case) and one numbered
\* entry per frame
format_trace(t) ==
  [language |-> CASE t.language = "python" -> "PYTHON"
                  [] t.language = "javascript" -> "JAVASCRIPT"
                  [] t.language = "java" -> "JAVA"
                  [] t.language = "go" -> "GO",
   entries |-> Len(t.stack)]

\* format_analysis: the totals of the report; every key is read by
\* subscript
format_analysis(a) ==
  [total_lines |-> a.total_lines,
   total_errors |-> SumValues(a.errors),
   total_warnings |-> SumValues(a.warnings)]

\* json.dumps(v, indent=2)
json_dumps(v) == [json |-> v]

\* open() raises FileNotFoundError: the call prints the message and
\* returns its empty value: [] from parse_file, {} from analyze_file
OpenMissing ==
  /\ stage = "open"
  /\ stderr' = Append(stderr, NotFound)
  /\ returned' = IF cmd = "parse-trace" THEN <<>> ELSE EmptyMap
  /\ stage' = "print"
  /\ UNCHANGED <<fmt, stdout, raised>>
  /\ UNCHANGED <<cmd, parse_vars, log_vars, hist_vars, store_vars, other>>

\* the file is read: parse_file hands its text to parse_text, analyze_file
\* builds its dict
OpenFound ==
  /\ stage = "open"
  /\ \/ /\ cmd = "parse-trace"
        /\ lines' \in {PyExample(ERR), JsExample(JSAT),
                       JavaExample(JEXC), GoExample(<<>>)}
        /\ UNCHANGED <<log_lines, analysis>>
     \/ /\ cmd = "analyze-log"
        /\ log_lines' \in FiveLineLogs
        /\ analysis' = NewAnalysis(log_lines')
        /\ UNCHANGED lines
  /\ stage' = "run"
  /\ UNCHANGED <<cmd, lang, pc, i, trace, scan_traces, traces, pattern, ln>>
  /\ UNCHANGED <<fmt, returned, stderr, stdout, raised>>
  /\ UNCHANGED <<hist_vars, store_vars, other>>

\* parse_file or analyze_file returns its result to main
Return ==
  /\ stage = "run"
  /\ parse_done \/ analyze_done
  /\ returned' = IF cmd = "parse-trace" THEN traces ELSE analysis
  /\ stage' = "print"
  /\ UNCHANGED <<fmt, stderr, stdout, raised>>
  /\ UNCHANGED <<cmd, parse_vars, log_vars, hist_vars, store_vars, other>>

\* main prints the result in the format asked for; analysis['total_lines']
\* raises KeyError when the key is missing
MainPrint ==
  /\ stage = "print"
  /\ IF cmd = "parse-trace"
       THEN /\ stdout' = IF fmt = "json" THEN <<json_dumps(returned)>>
                         ELSE IF returned = <<>>
                           THEN <<"No stack traces found in file.">>
                         ELSE [k \in 1..Len(returned) |-> format_trace(returned[k])]
            /\ UNCHANGED raised
       ELSE IF "total_lines" \in DOMAIN returned
            THEN /\ stdout' = IF fmt = "json" THEN <<json_dumps(returned)>>
                              ELSE <<format_analysis(returned)>>
                 /\ UNCHANGED raised
            ELSE /\ raised' = "KeyError"
                 /\ UNCHANGED stdout
  /\ stage' = "exit"
  /\ UNCHANGED <<fmt, returned, stderr>>
  /\ UNCHANGED <<cmd, parse_vars, log_vars, hist_vars, store_vars, other>>

(* ------------------------------------------------------------------ *)
(* Specification                                                       *)
(* ------------------------------------------------------------------ *)
InitParse ==
  /\ cmd = "parse-trace"
  /\ lines \in TraceInputs
  /\ lang = 1 /\ pc = "outer" /\ i = 0
  /\ trace = NoTrace /\ scan_traces = <<>> /\ traces = <<>>
  /\ log_lines = <<>> /\ pattern = None /\ ln = 1 /\ analysis = NoAnalysis
  /\ opened_at = 0 /\ spans = <<>>
  /\ current = Absent /\ archive = NoArchive /\ now = 0 /\ added = <<>>
  /\ stage = "run" /\ fmt = "text" /\ returned = None
  /\ stderr = <<>> /\ stdout = <<>> /\ raised = None
  /\ other = NoCall

InitAnalyze ==
  /\ cmd = "analyze-log"
  /\ log_lines \in LogInputs
  /\ pattern \in LogPatterns
  /\ ln = 1
  /\ analysis = NewAnalysis(log_lines)
  /\ lines = <<BLANK>> /\ lang = 1 /\ pc = "outer" /\ i = 0
  /\ trace = NoTrace /\ scan_traces = <<>> /\ traces = <<>>
  /\ opened_at = 0 /\ spans = <<>>
  /\ current = Absent /\ archive = NoArchive /\ now = 0 /\ added = <<>>
  /\ stage = "run" /\ fmt = "text" /\ returned = None
  /\ stderr = <<>> /\ stdout = <<>> /\ raised = None
  /\ other = NoCall

InitSession ==
  /\ cmd = "session"
  /\ current \in {Absent, Garbage} /\ archive = NoArchive /\ now = 0 /\ added = <<>>
  /\ stage = "run" /\ fmt = "text" /\ returned = None
  /\ stderr = <<>> /\ stdout = <<>> /\ raised = None
  /\ lines = <<BLANK>> /\ lang = 1 /\ pc = "outer" /\ i = 0
  /\ trace = NoTrace /\ scan_traces = <<>> /\ traces = <<>>
  /\ log_lines = <<>> /\ pattern = None /\ ln = 1 /\ analysis = NoAnalysis
  /\ opened_at = 0 /\ spans = <<>>
  /\ other = NoCall

\* main() has dispatched a command on a file it has not opened yet
InitMain ==
  /\ cmd \in {"parse-trace", "analyze-log"}
  /\ stage = "open" /\ fmt \in {"text", "json"} /\ returned = None
  /\ stderr = <<>> /\ stdout = <<>> /\ raised = None
  /\ pattern \in (IF cmd = "analyze-log" THEN {None, "disk"} ELSE {None})
  /\ lines = <<BLANK>> /\ lang = 1 /\ pc = "outer" /\ i = 0
  /\ trace = NoTrace /\ scan_traces = <<>> /\ traces = <<>>
  /\ log_lines = <<>> /\ ln = 1 /\ analysis = NoAnalysis
  /\ opened_at = 0 /\ spans = <<>>
  /\ current = Absent /\ archive = NoArchive /\ now = 0 /\ added = <<>>
  /\ other = NoCall

Init == InitParse \/ InitAnalyze \/ InitSession \/ InitMain

ScanNext ==
  \/ PyOuter \/ PyInnerFrame \/ PyInnerBreak \/ PyInnerEnd
  \/ JsOuter \/ JsInnerFrame \/ JsInnerBreak \/ JsInnerEnd
  \/ JavaOuter \/ JavaInnerFrame \/ JavaInnerCause \/ JavaInnerBreak
  \/ JavaInnerEnd
  \/ GoOuter \/ GoInnerHeader \/ GoInnerFrame \/ GoInnerNoLocation
  \/ GoInnerSkip \/ GoInnerBreak \/ GoInnerEnd
  \/ ScannerReturn

SessionNext == SessionStart \/ SessionNote \/ SessionClose \/ Tick

MainNext == OpenMissing \/ OpenFound \/ Return \/ MainPrint

Next == ScanNext \/ AnalyzeLine \/ SessionNext \/ MainNext

Spec == Init /\ [][Next]_vars

\* the lines that the frame loops tell apart
FrameLines ==
  {PYFILE, SNIPPET, JSAT, JSATSIMPLE, JAT, CAUSED, GOROUTINE, GOFUNC, GOLOC, BLANK}

\* a start line of one of the four formats and at most MaxFairLen lines
\* after it
StartedInputs ==
  { <<st>> \o r : st \in {TB, ERR, JEXC, PANIC},
                  r \in UNION {[1..n -> FrameLines] : n \in 0..MaxFairLen} }

\* a panic line, then a goroutine header and a call-site line without
\* location, or one frame, and one more line
GoSkipInputs ==
  { <<PANIC>> \o b \o <<a>> :
      b \in {<<GOROUTINE, GOFUNC>>, <<GOFUNC, GOLOC>>}, a \in FrameLines }

InitFair ==
  \/ /\ cmd = "parse-trace"
     /\ lines \in StartedInputs \cup GoSkipInputs
     /\ lang = 1 /\ pc = "outer" /\ i = 0
     /\ trace = NoTrace /\ scan_traces = <<>> /\ traces = <<>>
     /\ log_lines = <<>> /\ pattern = None /\ ln = 1 /\ analysis = NoAnalysis
     /\ opened_at = 0 /\ spans = <<>>
     /\ current = Absent /\ archive = NoArchive /\ now = 0 /\ added = <<>>
     /\ stage = "run" /\ fmt = "text" /\ returned = None
     /\ stderr = <<>> /\ stdout = <<>> /\ raised = None
     /\ other = NoCall
  \/ /\ cmd = "analyze-log"
     /\ log_lines \in FiveLineLogs
     /\ pattern \in LogPatterns
     /\ ln = 1
     /\ analysis = NewAnalysis(log_lines)
     /\ lines = <<BLANK>> /\ lang = 1 /\ pc = "outer" /\ i = 0
     /\ trace = NoTrace /\ scan_traces = <<>> /\ traces = <<>>
     /\ opened_at = 0 /\ spans = <<>>
     /\ current = Absent /\ archive = NoArchive /\ now = 0 /\ added = <<>>
     /\ stage = "run" /\ fmt = "text" /\ returned = None
     /\ stderr = <<>> /\ stdout = <<>> /\ raised = None
     /\ other = NoCall

FairNext == ScanNext \/ AnalyzeLine

\* the interpreter runs a call until it returns: a step that can be taken
\* is taken
FairSpec == InitFair /\ [][FairNext]_vars /\ WF_vars(FairNext)

(* ------------------------------------------------------------------ *)
(* Two calls at a time                                                 *)
(* Two threads call parse_text or analyze_file; the interpreter        *)
(* suspends one and resumes the other between any two steps.  The      *)
(* variables of the running call are the ones above, those of the      *)
(* suspended call are kept in `other`.                                 *)
(* ------------------------------------------------------------------ *)
\* the local variables of the running call
Locals ==
  [cmd |-> cmd, lines |-> lines, lang |-> lang, pc |-> pc, i |-> i,
   trace |-> trace, scan_traces |-> scan_traces, traces |-> traces,
   log_lines |-> log_lines, pattern |-> pattern, ln |-> ln,
   analysis |-> analysis, opened_at |-> opened_at, spans |-> spans]

\* faulty variant: the cursor is an attribute of the parser both calls use
ResumeSharedCursor(call) == [call EXCEPT !.i = i]

\* the local variables a call finds when it is resumed: its own
Resume(call) == call

\* the running call is suspended and the other one resumed
Switch ==
  /\ other # NoCall
  /\ other' = Locals
  /\ LET call == Resume(other)
     IN /\ cmd' = call.cmd /\ lines' = call.lines /\ lang' = call.lang
        /\ pc' = call.pc /\ i' = call.i /\ trace' = call.trace
        /\ scan_traces' = call.scan_traces /\ traces' = call.traces
        /\ log_lines' = call.log_lines /\ pattern' = call.pattern
        /\ ln' = call.ln /\ analysis' = call.analysis
        /\ opened_at' = call.opened_at /\ spans' = call.spans
  /\ UNCHANGED <<store_vars, main_vars>>

MixedText == <<TB, PYFILE, SNIPPET, ERR, JSAT, JSATSIMPLE, BLANK, JEXC, JAT, CAUSED, BLANK, PANIC, GOROUTINE, GOFUNC, BLANK, GOFUNC, GOLOC, BLANK>>

PyCutText == <<TB, PYFILE, SNIPPET>>

JsCutText == <<ERR, JSAT>>

JavaCutText == <<JEXC, JAT>>

GoCutText == <<PANIC, GOFUNC, GOLOC>>

\* the texts of the two calls
TwoCallTexts == {MixedText, PyCutText, JsCutText, JavaCutText, GoCutText}

\* the log of the two calls: its last line has no line terminator
TwoCallLog ==
  ReadLines(<< <<TS1, SP, "ERROR", SP, "[svc]", SP, "disk full">>,
               <<"ERROR", SP, "WARNING", SP, "both">>,
               <<TS2, SP, "ERROR", SP, "[svc]", SP, "disk full">> >>, FALSE)

\* a call of parse_text, before its first step
ParseCall(ls) ==
  [cmd |-> "parse-trace", lines |-> ls, lang |-> 1, pc |-> "outer", i |-> 0,
   trace |-> NoTrace, scan_traces |-> <<>>, traces |-> <<>>,
   log_lines |-> <<>>, pattern |-> None, ln |-> 1,
   analysis |-> NoAnalysis, opened_at |-> 0, spans |-> <<>>]

\* a call of analyze_file, before its first step
AnalyzeCall(ls, pat) ==
  [cmd |-> "analyze-log", lines |-> <<BLANK>>, lang |-> 1, pc |-> "outer", i |-> 0,
   trace |-> NoTrace, scan_traces |-> <<>>, traces |-> <<>>,
   log_lines |-> ls, pattern |-> pat, ln |-> 1,
   analysis |-> NewAnalysis(ls), opened_at |-> 0, spans |-> <<>>]

Calls ==
  {ParseCall(ls) : ls \in TwoCallTexts}
    \cup {AnalyzeCall(TwoCallLog, pat) : pat \in {None, "disk"}}

InitTwo ==
  /\ \E call \in Calls :
        /\ cmd = call.cmd /\ lines = call.lines /\ lang = call.lang
        /\ pc = call.pc /\ i = call.i /\ trace = call.trace
        /\ scan_traces = call.scan_traces /\ traces = call.traces
        /\ log_lines = call.log_lines /\ pattern = call.pattern
        /\ ln = call.ln /\ analysis = call.analysis
        /\ opened_at = call.opened_at /\ spans = call.spans
  /\ other \in Calls
  /\ current = Absent /\ archive = NoArchive /\ now = 0 /\ added = <<>>
  /\ stage = "run" /\ fmt = "text" /\ returned = None
  /\ stderr = <<>> /\ stdout = <<>> /\ raised = None

NextTwo == ScanNext \/ AnalyzeLine \/ Switch

SpecTwo == InitTwo /\ [][NextTwo]_vars

(* ------------------------------------------------------------------ *)
(* Properties                                                          *)
(* ------------------------------------------------------------------ *)
\* the records of one ecosystem in a result
Records(ts, l) == SelectSeq(ts, LAMBDA t : t.language = l)

\* the input without the empty last line a final line terminator leaves
Body == IF n_lines > 1 /\ lines[n_lines] = BLANK
        THEN SubSeq(lines, 1, n_lines - 1) ELSE lines

\* C1 as stated: for a traceback start line, one two-line frame and the
\* trailer `SomeError: message`, parse_text returns exactly one record in
\* total, with type SomeError, message "message" and one frame.
Cx_C1 ==
  (parse_done /\ lines \in OneFrameTracebacks) =>
     /\ Len(traces) = 1
     /\ traces[1].language = "python"
     /\ traces[1].error_type = "SomeError"
     /\ traces[1].error_message = "message"
     /\ Len(traces[1].stack) = 1

\* C1 amended: for such an input parse_text returns exactly two records:
\* first the python record with type SomeError, message "message" and one
\* frame, then one java record without frames (the trailer line, or the
\* snippet line before it, also matches java's exception_line).
Thm_C1 ==
  (parse_done /\ lines \in OneFrameTracebacks) =>
     /\ Len(traces) = 2
     /\ traces[1].language = "python"
     /\ traces[1].error_type = "SomeError"
     /\ traces[1].error_message = "message"
     /\ Len(traces[1].stack) = 1
     /\ traces[2].language = "java"
     /\ traces[2].stack = <<>>

Wit_C1 ==
  /\ parse_done
  /\ lines = <<TB, PYFILE, SNIPPET, ERR>>
  /\ Len(traces) = 2
  /\ traces[2].error_type = "SomeError"

\* a start line of the javascript grammar followed by no frame line
StartLineOnly == Len(Body) = 1 /\ javascript_error_line(Body[1])

\* C2 as stated: for a javascript start line followed by zero frame
\* lines parse_text returns no record at all.
Cx_C2 == (parse_done /\ StartLineOnly) => traces = <<>>

\* C2 amended: for such an input the javascript scanner returns no record,
\* and parse_text returns exactly one record, a java record without
\* frames (the start line also matches java's exception_line).
Thm_C2 ==
  (parse_done /\ StartLineOnly) =>
     /\ Records(traces, "javascript") = <<>>
     /\ Len(traces) = 1
     /\ traces[1].language = "java"
     /\ traces[1].stack = <<>>
     /\ traces[1].caused_by = <<>>

Wit_C2 == parse_done /\ lines = <<ERR>> /\ Len(traces) = 1

\* the ecosystems of a result, in result order
Languages(ts) == [k \in 1..Len(ts) |-> ts[k].language]

\* position of an ecosystem in the fixed order of PATTERNS
Rank(l) == CHOOSE k \in 1..4 : PATTERNS[k] = l

\* all records of an earlier ecosystem precede all records of a later one
InFixedOrder(ts) ==
  \A a, b \in 1..Len(ts) : a < b => Rank(ts[a].language) <= Rank(ts[b].language)

StartThenCause ==
  Len(Body) = 2 /\ java_exception_line(Body[1]) /\ java_caused_by(Body[2])

\* C4: for a java start line immediately followed by a `Caused by:` line,
\* with no frame lines after either, parse_text returns exactly one record,
\* with 0 frames and exactly 1 caused_by entry.
Thm_C4 ==
  (parse_done /\ StartThenCause) =>
     /\ Len(traces) = 1
     /\ traces[1].language = "java"
     /\ traces[1].stack = <<>>
     /\ Len(traces[1].caused_by) = 1

Wit_C4 ==
  /\ parse_done
  /\ lines = <<JEXC, CAUSED>>
  /\ Len(traces) = 1
  /\ traces[1].caused_by = <<[type |-> "java.lang.IllegalStateException",
                              message |-> "inner"]>>

\* no line of the text matches the start pattern of any grammar
NoStartLine ==
  \A k \in 1..n_lines :
     /\ ~python_traceback_start(lines[k])
     /\ ~javascript_error_line(lines[k])
     /\ ~java_exception_line(lines[k])
     /\ ~go_panic_line(lines[k])

\* no line of the log matches a severity, the timestamp or the custom pattern
NoLogMatch ==
  \A k \in 1..Len(log_lines) :
     /\ ~error_pattern(log_lines[k])
     /\ ~warning_pattern(log_lines[k])
     /\ ~timestamp_pattern(log_lines[k])
     /\ ~(pattern # None /\ Contains(log_lines[k], pattern))

\* C5: when no line matches any grammar's start pattern parse_text returns
\* the empty list, and when no log line matches a severity, timestamp or
\* custom pattern analyze_file returns empty errors, warnings and patterns
\* mappings and an empty timestamps list.
Thm_C5 ==
  /\ (parse_done /\ NoStartLine) => traces = <<>>
  /\ (analyze_done /\ NoLogMatch) =>
        /\ DOMAIN analysis.errors = {}
        /\ DOMAIN analysis.warnings = {}
        /\ DOMAIN analysis.patterns = {}
        /\ analysis.timestamps = <<>>
        /\ analysis.total_lines = Len(log_lines)

Wit_C5 ==
  /\ parse_done
  /\ NoStartLine
  /\ lines = <<PYFILE, JSAT, GOLOC>>
  /\ traces = <<>>

Wit_C5_log ==
  /\ analyze_done
  /\ NoLogMatch
  /\ Len(log_lines) = 2
  /\ pattern = "disk"
  /\ DOMAIN analysis.errors = {}

\* a scanner leaves its frame loop in this step
LeavesFrameLoop(l) == Scanning(l) /\ pc = "inner" /\ pc' = "outer"

\* C6: parse_text runs the four scanners in the order python, javascript,
\* java, go, each from the first line of the same input, and appends each
\* scanner's records after those of the scanners before it; so the records
\* are in ecosystem order, and a span that two grammars match (a javascript
\* start line with a frame is also a java start line) gives a record of
\* each of them.
C6_Order ==
  /\ InFixedOrder(traces \o scan_traces)
  /\ (Scanning("python") \/ Scanning("javascript") \/ Scanning("java")
        \/ Scanning("go")) =>
       \A k \in 1..Len(scan_traces) : scan_traces[k].language = PATTERNS[lang]

C6_NoExclusion ==
  (/\ parse_done
   /\ n_lines >= 2
   /\ javascript_error_line(lines[1])
   /\ javascript_at_line(lines[2]) \/ javascript_at_line_simple(lines[2])) =>
     /\ Records(traces, "javascript") # <<>>
     /\ Records(traces, "java") # <<>>
     /\ Records(traces, "javascript")[1].error_type
          = Records(traces, "java")[1].error_type

C6_Step ==
  (cmd = "parse-trace" /\ lang' # lang) =>
     /\ lang' = lang + 1
     /\ i' = 0 /\ pc' = "outer"
     /\ lines' = lines
     /\ traces' = traces \o scan_traces

Thm_C6 == [](C6_Order /\ C6_NoExclusion) /\ [][C6_Step]_vars

Wit_C6 ==
  /\ parse_done
  /\ lines = <<ERR, JSAT, BLANK>>
  /\ Languages(traces) = <<"javascript", "java">>

\* C7: a python record is appended exactly when the line that ends its
\* frame loop matches error_line; when another line ends the loop, or the
\* input ends first, nothing is appended, whatever the number of frames.
\* Every python record returned has an error_type and an error_message.
C7_Complete ==
  \A k \in 1..Len(traces \o scan_traces) :
     LET t == (traces \o scan_traces)[k]
     IN t.language = "python" =>
          t.error_type # None /\ t.error_message # None

C7_Step ==
  LeavesFrameLoop("python") =>
     IF i < n_lines /\ python_error_line(Line(i))
     THEN /\ Len(scan_traces') = Len(scan_traces) + 1
          /\ scan_traces'[Len(scan_traces')].stack = trace.stack
     ELSE scan_traces' = scan_traces

Thm_C7 == []C7_Complete /\ [][C7_Step]_vars

Wit_C7 ==
  /\ parse_done
  /\ lines = <<TB, BLANK, ERR>>
  /\ Records(traces, "python") = <<>>

\* C8: every record of the javascript scanner and of the go scanner has at
\* least one frame; a record of these grammars whose frame loop ends with
\* no frame captured is not appended.
C8_MinFrames ==
  \A k \in 1..Len(traces \o scan_traces) :
     LET t == (traces \o scan_traces)[k]
     IN t.language \in {"javascript", "go"} => Len(t.stack) >= 1

C8_Step ==
  ((LeavesFrameLoop("javascript") \/ LeavesFrameLoop("go")) /\ trace.stack = <<>>)
     => scan_traces' = scan_traces

Thm_C8 == []C8_MinFrames /\ [][C8_Step]_vars

Wit_C8 ==
  /\ parse_done
  /\ lines = <<PANIC, GOROUTINE, GOFUNC>>
  /\ traces = <<>>

\* C9: every record the java scanner opens is appended when its frame loop
\* ends, whatever follows the start line: no frame, no caused_by entry, or
\* the end of the input.
C9_Step ==
  LeavesFrameLoop("java") => scan_traces' = Append(scan_traces, trace)

C9_FirstLine ==
  (parse_done /\ java_exception_line(lines[1])) =>
     /\ Records(traces, "java") # <<>>
     /\ Records(traces, "java")[1].error_type
          = java_exception_line_groups(lines[1])[1]

Thm_C9 == []C9_FirstLine /\ [][C9_Step]_vars

Wit_C9 ==
  /\ parse_done
  /\ lines = <<JEXC>>
  /\ traces = <<[language |-> "java", error_type |-> "java.io.IOException",
                 error_message |-> "boom", stack |-> <<>>, caused_by |-> <<>>]>>

\* C10 as stated: a scanner goes back to searching at the line that ended
\* the frame loop, so every start line that is not part of an earlier
\* record opens a record.  A java start line is never a frame or a
\* `Caused by:` line and every java record opened is appended (C9), so the
\* java scanner would return one record per java start line.
Cx_C10 ==
  parse_done =>
     Len(Records(traces, "java"))
       = Cardinality({k \in 1..n_lines : java_exception_line(lines[k])})

\* the line matches none of the frame patterns of the running scanner's
\* grammar, nor its chain pattern, nor its transparent header
NoFrameLine(l) ==
  \/ Scanning("python") /\ ~python_file_line(l)
  \/ Scanning("javascript") /\ ~javascript_at_line(l) /\ ~javascript_at_line_simple(l)
  \/ Scanning("java") /\ ~java_at_line(l) /\ ~java_caused_by(l)
  \/ Scanning("go") /\ ~go_file_line(l) /\ ~go_location(l) /\ ~go_goroutine(l)

AtNoFrameLine == pc = "inner" /\ i < n_lines /\ NoFrameLine(Line(i))

\* C11 as stated: in every grammar the frame loop ends on the first line
\* that matches no frame pattern and is no transparent header, whether or
\* not a frame has been captured.
Cx_C11 == [][AtNoFrameLine => pc' = "outer"]_vars

\* C11 amended: in the python, javascript and java scanners the frame loop
\* ends on the first line that matches no frame (or chain) pattern; in the
\* go scanner it does so only once a frame has been captured: while the
\* record has no frame such a line is stepped over inside the same record,
\* so a frame separated from the panic line by it is attached to the record.
C11_Step ==
  AtNoFrameLine =>
     IF Scanning("go") /\ trace.stack = <<>>
     THEN pc' = "inner" /\ i' = i + 1 /\ trace' = trace
     ELSE pc' = "outer"

C11_Gap ==
  (parse_done /\ lines \in PanicWithGap) =>
     /\ Len(Records(traces, "go")) = 1
     /\ Len(Records(traces, "go")[1].stack) = 1

Thm_C11 == []C11_Gap /\ [][C11_Step]_vars

Wit_C11 ==
  /\ parse_done
  /\ lines = <<PANIC, BLANK, GOFUNC, GOLOC>>
  /\ Records(traces, "go") =
       <<[language |-> "go", error_message |-> "runtime error",
          stack |-> <<[function |-> "main.main", file |-> "/tmp/x.go",
                       line |-> 5]>>]>>

\* every frame of every record of a result
FramesOf(ts) == UNION { {ts[k].stack[j] : j \in 1..Len(ts[k].stack)} : k \in 1..Len(ts) }

\* C12 as stated: every frame of every record any scanner returns has a
\* line number >= 1.
Cx_C12 == \A f \in FramesOf(traces \o scan_traces) : f.line >= 1

\* the lines among the first n that a severity pattern matches
ErrorLines(n) == {k \in 1..n : error_pattern(log_lines[k])}
WarningLines(n) == {k \in 1..n : warning_pattern(log_lines[k])}

\* C13: total_lines is the number of input lines, and the error and the
\* warning mapping sum to the number of lines matching the error and the
\* warning pattern, after every line of the loop and so in the result.
Thm_C13 ==
  cmd = "analyze-log" =>
     /\ analysis.total_lines = Len(log_lines)
     /\ SumValues(analysis.errors) = Cardinality(ErrorLines(ln - 1))
     /\ SumValues(analysis.warnings) = Cardinality(WarningLines(ln - 1))

Wit_C13 ==
  /\ analyze_done /\ log_lines \in FiveLineLogs
  /\ analysis.total_lines = 5
  /\ SumValues(analysis.errors) = 2
  /\ SumValues(analysis.warnings) = 1

\* a line without its terminator
Content(line) == RStrip(line, {NL})

\* two lines that differ only in their leading timestamp
SameButTimestamp(a, b) ==
  /\ Content(a) # <<>> /\ Content(b) # <<>>
  /\ Head(a) \in {TS1, TS2} /\ Head(b) \in {TS1, TS2} /\ Head(a) # Head(b)
  /\ Tail(Content(a)) = Tail(Content(b))

\* C14 as stated: two error lines that differ only in their leading
\* timestamp have the same message key, and the error mapping counts both
\* under it.
Cx_C14 ==
  analyze_done =>
     \A j, k \in 1..Len(log_lines) :
        (error_pattern(log_lines[j]) /\ SameButTimestamp(log_lines[j], log_lines[k])) =>
           /\ extract_error_message(log_lines[j]) = extract_error_message(log_lines[k])
           /\ analysis.errors[extract_error_message(log_lines[j])] >= 2

\* the count a mapping holds for a key
Count(m, k) == IF k \in DOMAIN m THEN m[k] ELSE 0

\* C15: a line that matches the error pattern raises the error count of
\* its key by one and a line that matches the warning pattern raises the
\* warning count of its key by one, whether or not it matches the other
\* pattern; a line matching both raises both, under the same key.
C15_Step ==
  (cmd = "analyze-log" /\ ln' = ln + 1) =>
     LET line == log_lines[ln]
         key == extract_error_message(line)
     IN /\ error_pattern(line) =>
             Count(analysis'.errors, key) = Count(analysis.errors, key) + 1
        /\ warning_pattern(line) =>
             Count(analysis'.warnings, key) = Count(analysis.warnings, key) + 1

Thm_C15 == [][C15_Step]_vars

Wit_C15 ==
  /\ analyze_done
  /\ log_lines = <<<<"ERROR", SP, "WARNING", SP, "both", NL>>>>
  /\ analysis.errors = [k \in {<<"both", NL>>} |-> 1]
  /\ analysis.warnings = [k \in {<<"both", NL>>} |-> 1]

\* the CausedBy entry of a chain line
CauseOf(l) ==
  [type |-> java_caused_by_groups(l)[1], message |-> java_caused_by_groups(l)[2]]

\* the CausedBy entries of the chain lines of a text, in input order
ChainOf(ls) ==
  LET sel == SelectSeq(ls, java_caused_by)
  IN [k \in 1..Len(sel) |-> CauseOf(sel[k])]

\* the frame lines of a text
AtLinesOf(ls) == SelectSeq(ls, java_at_line)

\* a chain line met in the frame loop appends one entry to the open record,
\* leaves its frames alone and stays in the frame loop, one line further
C19_Step ==
  (Scanning("java") /\ pc = "inner" /\ i < n_lines
     /\ ~java_at_line(Line(i)) /\ java_caused_by(Line(i))) =>
        /\ trace'.caused_by = Append(trace.caused_by, CauseOf(Line(i)))
        /\ trace'.stack = trace.stack
        /\ pc' = "inner" /\ i' = i + 1
        /\ scan_traces' = scan_traces

\* an exception line followed by any mix of frame and chain lines gives one
\* record with one entry per chain line, in input order, and one frame per
\* frame line, whatever their positions
C19_Chain ==
  (parse_done /\ lines \in ChainInputs) =>
     /\ Len(Records(traces, "java")) = 1
     /\ Records(traces, "java")[1].caused_by = ChainOf(lines)
     /\ Len(Records(traces, "java")[1].stack) = Len(AtLinesOf(lines))

\* C19: each chain line of the frame loop appends exactly one CausedBy
\* entry and re-enters the loop, with no minimum of frames before or after
\* it: entries are in input order, later frames are still captured and
\* consecutive chain lines are all recorded.
Thm_C19 == []C19_Chain /\ [][C19_Step]_vars

Wit_C19 ==
  /\ parse_done /\ lines = <<JEXC, CAUSED, CAUSED2, JAT>>
  /\ Records(traces, "java")[1].caused_by =
       <<[type |-> "java.lang.IllegalStateException", message |-> "inner"],
         [type |-> "java.io.IOException", message |-> "root"]>>
  /\ Len(Records(traces, "java")[1].stack) = 1

\* the cursor of a running scanner is never more than two lines past the
\* end (a two-line frame at the last line, then the outer `i += 1`)
C20_Bound == cmd = "parse-trace" => i <= n_lines + 2

\* the four scanners return one after the other, and so the parse returns
C20_Returns == <>(cmd = "parse-trace" => parse_done)

\* C20: every scanner terminates on every finite input: its cursor stays
\* within one line of the end of the text, and the scan reaches that end
\* and returns.
Thm_C20 == []C20_Bound /\ C20_Returns

\* the go scanner has stepped over a goroutine header, a call-site line
\* without location and a non-frame line, and the parse has returned
Wit_C20 ==
  /\ parse_done
  /\ lines = <<PANIC, GOROUTINE, GOFUNC, BLANK>>
  /\ traces = <<>>

\* the cursor of a running scanner moves forward on every step
C18_Forward ==
  (cmd = "parse-trace" /\ stage = "run" /\ stage' = "run" /\ lang' = lang)
     => i' > i

\* the records of the running scanner, in the order of its list: each
\* starts before the cursor that ended it, and where the one before it
\* ended or later, so that no line belongs to two of them
C18_Spans ==
  /\ Len(spans) = Len(scan_traces)
  /\ \A k \in 1..Len(spans) :
        /\ spans[k][1] < spans[k][2]
        /\ k > 1 => spans[k - 1][2] <= spans[k][1]
  /\ (pc = "inner" /\ spans # <<>>) => spans[Len(spans)][2] <= opened_at

\* C18: each scanner makes a single forward pass: its cursor strictly
\* increases on every step and never moves back, no line is consumed into
\* two records of the same scanner, and records are emitted in the order of
\* their start lines.
Thm_C18 == []C18_Spans /\ [][C18_Forward]_vars

\* two tracebacks one after the other: two records, the second starting
\* where the first ended
Wit_C18 ==
  /\ Scanning("python") /\ pc = "outer"
  /\ lines = <<TB, PYFILE, SNIPPET, ERR>> \o <<TB, PYFILE, SNIPPET, ERR>>
  /\ spans = <<<<0, 4>>, <<4, 8>>>>
  /\ Len(scan_traces) = 2

\* C17 as stated: closing a session never overwrites or removes the archive
\* of another session: every archive that exists before a step of the
\* session store exists unchanged after it.
Cx_C17 ==
  [][\A id \in DOMAIN archive : id \in DOMAIN archive' /\ archive'[id] = archive[id]]_vars

\* what parse_text returns for each of these texts when it runs alone
AloneTraces(ls) ==
  CASE ls = MixedText ->
      <<[language |-> "python", stack |-> <<[file |-> "a.py", line |-> 3, function |-> "f", code |-> "x = compute(1)"]>>, error_type |-> "SomeError", error_message |-> "message"],
        [language |-> "javascript", error_type |-> "SomeError", error_message |-> "message", stack |-> <<[function |-> "f", file |-> "a.js", line |-> 1, column |-> 2],
              [file |-> "a.js", line |-> 1, column |-> 2]>>],
        [language |-> "java", error_type |-> "SomeError", error_message |-> "message", stack |-> <<>>, caused_by |-> <<>>],
        [language |-> "java", error_type |-> "java.io.IOException", error_message |-> "boom", stack |-> <<[method |-> "com.foo.Bar.baz", file |-> "Bar.java", line |-> 10]>>, caused_by |-> <<[type |-> "java.lang.IllegalStateException", message |-> "inner"]>>],
        [language |-> "go", error_message |-> "runtime error", stack |-> <<[function |-> "main.main", file |-> "/tmp/x.go", line |-> 5]>>]>>
    [] ls = PyCutText ->
      <<>>
    [] ls = JsCutText ->
      <<[language |-> "javascript", error_type |-> "SomeError", error_message |-> "message", stack |-> <<[function |-> "f", file |-> "a.js", line |-> 1, column |-> 2]>>],
        [language |-> "java", error_type |-> "SomeError", error_message |-> "message", stack |-> <<>>, caused_by |-> <<>>]>>
    [] ls = JavaCutText ->
      <<[language |-> "java", error_type |-> "java.io.IOException", error_message |-> "boom", stack |-> <<[method |-> "com.foo.Bar.baz", file |-> "Bar.java", line |-> 10]>>, caused_by |-> <<>>]>>
    [] ls = GoCutText ->
      <<[language |-> "go", error_message |-> "runtime error", stack |-> <<[function |-> "main.main", file |-> "/tmp/x.go", line |-> 5]>>]>>

\* what analyze_file returns for the log of the two calls when it runs alone
AloneAnalysis(pat) ==
  [total_lines |-> 3,
   errors |-> (<<"disk full", NL>> :> 1 @@ <<"both", NL>> :> 1 @@ <<"disk full">> :> 1),
   warnings |-> (<<"both", NL>> :> 1),
   patterns |->
     IF pat = None THEN EmptyMap
     ELSE ("disk" :> <<[line_number |-> 1,
                        content |-> <<TS1, SP, "ERROR", SP, "[svc]", SP, "disk full">>],
                       [line_number |-> 3,
                        content |-> <<TS2, SP, "ERROR", SP, "[svc]", SP, "disk full">>]>>),
   timestamps |-> <<TS1, TS2>>]

\* a call has returned
Returned(call) ==
  \/ call.cmd = "parse-trace" /\ call.lang > 4
  \/ call.cmd = "analyze-log" /\ call.ln > Len(call.log_lines)

\* a call has returned what it returns when it runs alone
AsAlone(call) ==
  IF call.cmd = "parse-trace" THEN call.traces = AloneTraces(call.lines)
  ELSE call.analysis = AloneAnalysis(call.pattern)

\* a call has taken a step and has not returned
Underway(call) ==
  /\ ~Returned(call)
  /\ call.lang > 1 \/ call.i > 0 \/ call.ln > 1

\* C16: the scanners and the log analyzer share no mutable state: however
\* the steps of two calls are interleaved, each call returns what it
\* returns when it runs alone, and two calls on the same input return the
\* same.
Thm_C16 ==
  /\ Returned(Locals) => AsAlone(Locals)
  /\ Returned(other) => AsAlone(other)
  /\ (Returned(Locals) /\ Returned(other) /\ lines = other.lines
        /\ log_lines = other.log_lines /\ pattern = other.pattern) =>
       (traces = other.traces /\ analysis = other.analysis)

\* a parse has returned its five records while a call that was suspended in
\* the middle of the log is still underway
Wit_C16 ==
  /\ parse_done /\ lines = MixedText /\ Len(traces) = 5
  /\ other.cmd = "analyze-log" /\ Underway(other)

\* the slot holds a session
Active == load_current_session(current) # NoSession

\* the contents of a sequence of notes
Contents(notes) == [k \in 1..Len(notes) |-> notes[k].content]

\* a step that lengthens the notes of the session in the slot adds one note
\* at the end and changes nothing else of the session
C21_Step ==
  (Active /\ load_current_session(current') # NoSession
     /\ Len(current'.notes) > Len(current.notes)) =>
        /\ Len(current'.notes) = Len(current.notes) + 1
        /\ SubSeq(current'.notes, 1, Len(current.notes)) = current.notes
        /\ current'.notes[Len(current'.notes)].content \in NoteTexts
        /\ current'.id = current.id
        /\ current'.description = current.description
        /\ current'.start_time = current.start_time
        /\ current'.status = current.status
        /\ UNCHANGED archive

\* the notes of the session in the slot are the contents add_note was
\* given since its start, in call order
C21_Order == Active => Contents(current.notes) = added

\* C21: add_note on an active session appends exactly one note at the end
\* of the notes and leaves the earlier notes, their order and the id,
\* description, start_time and status alone; after any sequence of add_note
\* calls following one start the notes are the added contents in call
\* order.
Thm_C21 == []C21_Order /\ [][C21_Step]_vars

\* two notes with different contents have been added after a start
Wit_C21 ==
  /\ Active /\ added = <<"n2", "n1">>
  /\ Contents(current.notes) = <<"n2", "n1">>
  /\ current.status = "active"

\* the slot as start() writes it at the present time
Started(file) ==
  /\ load_current_session(file) # NoSession
  /\ file.id = strftime(now) /\ file.start_time = isoformat(now)
  /\ file.description \in Descriptions
  /\ file.notes = <<>> /\ file.status = "active"

\* without a session in the slot (absent or no JSON) no step writes an
\* archive, and the only step that writes the slot is a start
C22_NoSession ==
  (cmd = "session" /\ ~Active) =>
     /\ archive' = archive
     /\ current' = current \/ Started(current')

\* a step that writes an archive is a close of the session in the slot: the
\* archive of its id holds the session with status 'resolved', the other
\* archives are as before and the slot is cleared
C22_Close ==
  (cmd = "session" /\ archive' # archive) =>
     /\ Active
     /\ current' = Absent
     /\ DOMAIN archive' = DOMAIN archive \cup {current.id}
     /\ archive'[current.id].status = "resolved"
     /\ archive'[current.id].description = current.description
     /\ archive'[current.id].notes = current.notes
     /\ archive'[current.id].solution \in Solutions
     /\ \A id \in DOMAIN archive \ {current.id} : archive'[id] = archive[id]

\* an archive is only ever written together with clearing the slot, so a
\* slot that holds a session has not been archived since its start
C22_Cleared == [](cmd = "session" /\ Active => current.status = "active")

\* C22: add_note and close without an active session (slot absent or
\* unparsable) change nothing: no slot is created and no archive written;
\* close on an active session writes the archive with status 'resolved'
\* and clears the slot, so that a second close or a later add_note finds no
\* session.
Thm_C22 == C22_Cleared /\ [][C22_NoSession /\ C22_Close]_vars

\* a session with one note has been closed: its archive is resolved and the
\* slot is gone
Wit_C22 ==
  /\ cmd = "session" /\ current = Absent
  /\ DOMAIN archive = {0}
  /\ archive[0].status = "resolved" /\ Len(archive[0].notes) = 1

\* C23 as stated: for a file that does not exist, the parse-trace and the
\* analyze-log command, in text and in json format, print the not-found
\* error, yield an empty result and finish without an unhandled exception.
Cx_C23 ==
  (stage = "exit" /\ stderr = <<NotFound>>) =>
     /\ DOMAIN returned = {}
     /\ raised = None

====
